---- MODULE Spec2Model ----
(***************************************************************************)
(* Model of app.py: the /parse handler parse_query and its helpers         *)
(* parse_date_string and is_missing.                                       *)
(*                                                                         *)
(* Text is a sequence of one-character strings, so that substring tests,   *)
(* lower(), strip() and the "after N days" regular expression are computed *)
(* as Python computes them.  A calendar date is its proleptic Gregorian    *)
(* ordinal (date.toordinal()); the "%Y-%m-%d" text of a date is the triple *)
(* <<year, month, day>>.                                                   *)
(***************************************************************************)
EXTENDS Integers, Sequences, FiniteSets, TLC

(***************************************************************************)
(* Text literals of the source.                                            *)
(***************************************************************************)
S_from == <<"f", "r", "o", "m">>
S_to == <<"t", "o">>
S_tomorrow == <<"t", "o", "m", "o", "r", "r", "o", "w">>
S_day_after_tomorrow == <<"d", "a", "y", " ", "a", "f", "t", "e", "r", " ", "t", "o", "m", "o", "r", "r", "o", "w">>
S_after_ == <<"a", "f", "t", "e", "r", " ">>
S__day == <<" ", "d", "a", "y">>
S_economy == <<"e", "c", "o", "n", "o", "m", "y">>
S_none == <<"n", "o", "n", "e">>
S_not_provided == <<"n", "o", "t", " ", "p", "r", "o", "v", "i", "d", "e", "d">>
S_dep_np == <<"d", "e", "p", "a", "r", "t", "u", "r", "e", " ", "c", "i", "t", "y", " ", "(", "n", "o", "t", " ", "p", "r", "o", "v", "i", "d", "e", "d", ")">>
S_arr_np == <<"a", "r", "r", "i", "v", "a", "l", " ", "c", "i", "t", "y", " ", "(", "n", "o", "t", " ", "p", "r", "o", "v", "i", "d", "e", "d", ")">>
S_True == <<"T", "r", "u", "e">>
S_False == <<"F", "a", "l", "s", "e">>

(***************************************************************************)
(* Python str methods.                                                     *)
(***************************************************************************)
UpperToLower ==
  [c \in {"A","B","C","D","E","F","G","H","I","J","K","L","M",
          "N","O","P","Q","R","S","T","U","V","W","X","Y","Z"} |->
     CASE c = "A" -> "a" [] c = "B" -> "b" [] c = "C" -> "c" [] c = "D" -> "d"
       [] c = "E" -> "e" [] c = "F" -> "f" [] c = "G" -> "g" [] c = "H" -> "h"
       [] c = "I" -> "i" [] c = "J" -> "j" [] c = "K" -> "k" [] c = "L" -> "l"
       [] c = "M" -> "m" [] c = "N" -> "n" [] c = "O" -> "o" [] c = "P" -> "p"
       [] c = "Q" -> "q" [] c = "R" -> "r" [] c = "S" -> "s" [] c = "T" -> "t"
       [] c = "U" -> "u" [] c = "V" -> "v" [] c = "W" -> "w" [] c = "X" -> "x"
       [] c = "Y" -> "y" [] c = "Z" -> "z"]

\* str.lower()
lower(s) ==
  [i \in 1..Len(s) |-> IF s[i] \in DOMAIN UpperToLower THEN UpperToLower[s[i]] ELSE s[i]]

\* str.strip(): leading and trailing whitespace removed
strip(s) ==
  LET ink == {i \in 1..Len(s) : s[i] # " "}
  IN IF ink = {} THEN <<>>
     ELSE LET a == CHOOSE i \in ink : \A j \in ink : i <= j
              b == CHOOSE i \in ink : \A j \in ink : j <= i
          IN SubSeq(s, a, b)

\* s starts with sub at index i
StartsWithAt(s, i, sub) ==
  /\ i >= 1
  /\ i + Len(sub) - 1 <= Len(s)
  /\ \A k \in 1..Len(sub) : s[i + k - 1] = sub[k]

\* Python's `sub in s`
Contains(s, sub) == \E i \in 1..(Len(s) - Len(sub) + 1) : StartsWithAt(s, i, sub)

IsDigit(c) == c \in {"0","1","2","3","4","5","6","7","8","9"}

DigitVal(c) ==
  CASE c = "0" -> 0 [] c = "1" -> 1 [] c = "2" -> 2 [] c = "3" -> 3 [] c = "4" -> 4
    [] c = "5" -> 5 [] c = "6" -> 6 [] c = "7" -> 7 [] c = "8" -> 8 [] c = "9" -> 9

DigitChar(d) ==
  CASE d = 0 -> "0" [] d = 1 -> "1" [] d = 2 -> "2" [] d = 3 -> "3" [] d = 4 -> "4"
    [] d = 5 -> "5" [] d = 6 -> "6" [] d = 7 -> "7" [] d = 8 -> "8" [] d = 9 -> "9"

\* the value of a non-empty run of decimal digits
RECURSIVE DigitsValue(_)
DigitsValue(ds) ==
  IF ds = <<>> THEN 0
  ELSE 10 * DigitsValue(SubSeq(ds, 1, Len(ds) - 1)) + DigitVal(ds[Len(ds)])

\* str(n) for an integer n >= 0
RECURSIVE NatToStr(_)
NatToStr(n) ==
  IF n < 10 THEN <<DigitChar(n)>> ELSE Append(NatToStr(n \div 10), DigitChar(n % 10))

(***************************************************************************)
(* re.search(r'after (\d+) days?', s): the leftmost match.  At a start     *)
(* position the greedy \d+ takes the maximal run of digits; a shorter run  *)
(* is followed by a digit, never by " day", so backtracking adds no match. *)
(***************************************************************************)
DigitRunEnd(s, i) ==
  CHOOSE j \in (i - 1)..Len(s) :
    /\ \A k \in i..j : IsDigit(s[k])
    /\ j = Len(s) \/ ~IsDigit(s[j + 1])

AfterDaysMatchAt(s, i) ==
  /\ StartsWithAt(s, i, S_after_)
  /\ LET j == DigitRunEnd(s, i + Len(S_after_))
     IN /\ j >= i + Len(S_after_)
        /\ StartsWithAt(s, j + 1, S__day)

\* [matched, days]: match is not None, int(match.group(1))
re_search_after_days(s) ==
  LET starts == {i \in 1..Len(s) : AfterDaysMatchAt(s, i)}
  IN IF starts = {} THEN [matched |-> FALSE, days |-> 0]
     ELSE LET i == CHOOSE a \in starts : \A b \in starts : a <= b
              j == DigitRunEnd(s, i + Len(S_after_))
          IN [matched |-> TRUE, days |-> DigitsValue(SubSeq(s, i + Len(S_after_), j))]

(***************************************************************************)
(* datetime: proleptic Gregorian calendar, years 1..9999.                  *)
(***************************************************************************)
\* datetime.max.toordinal(): 9999-12-31
MaxOrdinal == 3652059
\* timedelta.max.days
MaxTimedeltaDays == 999999999

IsLeap(y) == y % 4 = 0 /\ (y % 100 # 0 \/ y % 400 = 0)

DaysInMonth(y, m) ==
  IF m = 2 THEN (IF IsLeap(y) THEN 29 ELSE 28)
  ELSE IF m \in {4, 6, 9, 11} THEN 30 ELSE 31

RECURSIVE DaysBeforeMonth(_, _)
DaysBeforeMonth(y, m) ==
  IF m = 1 THEN 0 ELSE DaysBeforeMonth(y, m - 1) + DaysInMonth(y, m - 1)

DaysBeforeYear(y) ==
  (y - 1) * 365 + (y - 1) \div 4 - (y - 1) \div 100 + (y - 1) \div 400

\* date(y, m, d).toordinal()
ymd2ord(ymd) == DaysBeforeYear(ymd[1]) + DaysBeforeMonth(ymd[1], ymd[2]) + ymd[3]

\* date.fromordinal(n) as <<year, month, day>>
ord2ymd(n) ==
  LET n0   == n - 1
      n400 == n0 \div 146097
      r400 == n0 % 146097
      n100 == r400 \div 36524
      r100 == r400 % 36524
      n4   == r100 \div 1461
      r4   == r100 % 1461
      n1   == r4 \div 365
      r1   == r4 % 365
      year == n400 * 400 + 1 + n100 * 100 + n4 * 4 + n1
  IN IF n1 = 4 \/ n100 = 4 THEN <<year - 1, 12, 31>>
     ELSE LET month == CHOOSE m \in 1..12 :
                         /\ DaysBeforeMonth(year, m) <= r1
                         /\ r1 < DaysBeforeMonth(year, m) + DaysInMonth(year, m)
          IN <<year, month, r1 - DaysBeforeMonth(year, month) + 1>>

\* d.strftime('%Y-%m-%d'): only the calendar date of a datetime is printed
strftime(ord) == ord2ymd(ord)

\* datetime.strptime(text, "%Y-%m-%d"): midnight of that date
strptime(ymd) == ymd2ord(ymd)

(***************************************************************************)
(* Python / JSON values: None, str, int, bool.  Absent marks a key that a  *)
(* mapping does not have.                                                  *)
(***************************************************************************)
JNull == [t |-> "null", s |-> <<>>, n |-> 0]
Absent == [t |-> "absent", s |-> <<>>, n |-> 0]
JStr(s) == [t |-> "str", s |-> s, n |-> 0]
JNum(n) == [t |-> "num", s |-> <<>>, n |-> n]
JTrue == [t |-> "true", s |-> <<>>, n |-> 1]
JFalse == [t |-> "false", s |-> <<>>, n |-> 0]

\* bool(value)
truthy(v) ==
  CASE v.t = "str" -> v.s # <<>>
    [] v.t = "num" -> v.n # 0
    [] v.t = "true" -> TRUE
    [] OTHER -> FALSE

\* str(value)
py_str(v) ==
  CASE v.t = "str" -> v.s
    [] v.t = "num" -> NatToStr(v.n)
    [] v.t = "true" -> S_True
    [] v.t = "false" -> S_False
    [] OTHER -> S_none

\* dict.get(key): None for a key the mapping does not have
dict_get(d, k) == IF d[k] = Absent THEN JNull ELSE d[k]

\* dict.get(key, default)
dict_get_default(d, k, default) == IF d[k] = Absent THEN default ELSE d[k]

\* The outcome of an expression: a value, or an exception raised.
Ok(v) == [ok |-> TRUE, val |-> v, exc |-> ""]
Raised(e) == [ok |-> FALSE, val |-> 0, exc |-> e]

\* int(value): a str converts when, stripped, it is a run of decimal digits
\* (no input here carries a sign or an underscore); None raises TypeError
py_int(v) ==
  CASE v.t = "num" -> Ok(v.n)
    [] v.t = "true" -> Ok(1)
    [] v.t = "false" -> Ok(0)
    [] v.t = "str" ->
         LET d == strip(v.s)
         IN IF d # <<>> /\ \A i \in 1..Len(d) : IsDigit(d[i])
            THEN Ok(DigitsValue(d)) ELSE Raised("ValueError")
    [] OTHER -> Raised("TypeError")

\* value.lower(), which only a str has
py_lower(v) == IF v.t = "str" THEN Ok(lower(v.s)) ELSE Raised("AttributeError")

\* is_missing(value)
is_missing(value) ==
  IF value = JNull THEN TRUE
  ELSE lower(strip(py_str(value))) \in {<<>>, S_none, S_not_provided, S_dep_np, S_arr_np}

(***************************************************************************)
(* parse_date_string.  Its result is None, the "%Y-%m-%d" text of a date,  *)
(* or an exception.  parsedatetime and dateutil are libraries outside the  *)
(* repository: lib.cal is the date Calendar.parse reports (0: parse_status *)
(* 0) and lib.fuzzy the date dateutil's fuzzy parser returns (0: raises).  *)
(***************************************************************************)
NoBase == 0
RNone == [k |-> "none", ymd |-> <<0, 0, 0>>, exc |-> ""]
RDate(ord) == [k |-> "date", ymd |-> strftime(ord), exc |-> ""]
RRaise(e) == [k |-> "raise", ymd |-> <<0, 0, 0>>, exc |-> e]

\* (today + timedelta(days=days)).strftime('%Y-%m-%d')
plus_days(today, days) ==
  IF days > MaxTimedeltaDays \/ today + days > MaxOrdinal
  THEN RRaise("OverflowError")
  ELSE RDate(today + days)

\* lines 55-65: parsedatetime, then the dateutil fallback
general_parsers(lib) ==
  IF lib.cal # 0 THEN RDate(lib.cal)
  ELSE IF lib.fuzzy # 0 THEN RDate(lib.fuzzy)
  ELSE RNone

\* lines 46-53: the three phrase rules; "nomatch" when none applies
Undecided == [k |-> "nomatch", ymd |-> <<0, 0, 0>>, exc |-> ""]

\* mutant: "tomorrow" is tested before "day after tomorrow"
phrase_rules_tomorrow_first(natural_date_lower, today) ==
  LET match == re_search_after_days(natural_date_lower)
  IN IF Contains(natural_date_lower, S_tomorrow) THEN plus_days(today, 1)
     ELSE IF Contains(natural_date_lower, S_day_after_tomorrow) THEN plus_days(today, 2)
     ELSE IF match.matched THEN plus_days(today, match.days)
     ELSE Undecided

phrase_rules(natural_date_lower, today) ==
  LET match == re_search_after_days(natural_date_lower)
  IN IF Contains(natural_date_lower, S_day_after_tomorrow) THEN plus_days(today, 2)
     ELSE IF Contains(natural_date_lower, S_tomorrow) THEN plus_days(today, 1)
     ELSE IF match.matched THEN plus_days(today, match.days)
     ELSE Undecided

\* mutant: the general parsers are consulted before the phrase rules
rule_order_general_first(natural_date_lower, today, lib) ==
  LET general == general_parsers(lib)
  IN IF general.k = "date" THEN general
     ELSE LET r == phrase_rules(natural_date_lower, today)
          IN IF r.k # "nomatch" THEN r ELSE RNone

\* lines 45-65: the phrase rules first, the libraries only when none applies
rule_order(natural_date_lower, today, lib) ==
  LET r == phrase_rules(natural_date_lower, today)
  IN IF r.k # "nomatch" THEN r ELSE general_parsers(lib)

parse_date_string(natural_date, base_date, now_, lib) ==
  IF ~truthy(natural_date) THEN RNone
  ELSE IF natural_date.t # "str" THEN RRaise("AttributeError")
  ELSE rule_order(strip(lower(natural_date.s)),
                  IF base_date # NoBase THEN base_date ELSE now_, lib)

\* whether a call reaches lines 56-63, where the libraries are asked: no
\* phrase rule applies, which does not depend on the reference date
consults_libraries(natural_date) ==
  /\ truthy(natural_date)
  /\ natural_date.t = "str"
  /\ phrase_rules(strip(lower(natural_date.s)), 1).k = "nomatch"

(***************************************************************************)
(* The completer's reply and the Response Extractor (lines 85-90).  The    *)
(* reply is a sequence of tokens: "{" and "}", "p" (prose without braces)  *)
(* and "m" (the text of well-formed JSON members, which decodes to the     *)
(* mapping carried beside it).                                             *)
(***************************************************************************)
Keys == {"from", "to", "depdate", "retdate", "adults", "children", "infants",
         "cabin", "airline_include"}

EmptyMapping == [k \in Keys |-> Absent]

\* re.search(r"\{.*\}", content, re.DOTALL): first "{" to last "}"
re_search_json(content) ==
  LET opens  == {i \in 1..Len(content) : content[i] = "{"}
      closes == {i \in 1..Len(content) : content[i] = "}"}
  IN IF opens = {} THEN [matched |-> FALSE, span |-> <<>>]
     ELSE LET a == CHOOSE i \in opens : \A j \in opens : i <= j
              after == {i \in closes : i > a}
          IN IF after = {} THEN [matched |-> FALSE, span |-> <<>>]
             ELSE LET b == CHOOSE i \in after : \A j \in after : j <= i
                  IN [matched |-> TRUE, span |-> SubSeq(content, a, b)]

\* mutant: text that is not JSON decodes to the empty mapping
json_loads_lenient(span, members) ==
  IF span = <<"{", "m", "}">> THEN [ok |-> TRUE, val |-> members, exc |-> ""]
  ELSE [ok |-> TRUE, val |-> EmptyMapping, exc |-> ""]

\* json.loads(span)
json_loads(span, members) ==
  IF span = <<"{", "m", "}">> THEN [ok |-> TRUE, val |-> members, exc |-> ""]
  ELSE IF span = <<"{", "}">> THEN [ok |-> TRUE, val |-> EmptyMapping, exc |-> ""]
  ELSE [ok |-> FALSE, val |-> EmptyMapping, exc |-> "JSONDecodeError"]

(***************************************************************************)
(* Bounds and inputs.                                                      *)
(***************************************************************************)
\* the largest N of the "after N days" phrases
MaxDays == 2
\* the longest completer reply enumerated token by token
MaxTokens == 3

Q_both == <<"f", "l", "y", " ", "f", "r", "o", "m", " ", "A", " ", "t", "o", " ", "B">>
Q_to_only == <<"A", " ", "t", "o", " ", "B">>
Q_from_only == <<"F", "r", "o", "m", " ", "A">>
Q_neither == <<"h", "i">>
V_Delhi == <<"D", "e", "l", "h", "i">>
V_Mumbai == <<"M", "u", "m", "b", "a", "i">>
V_NotProvided == <<" ", "N", "o", "t", " ", "P", "r", "o", "v", "i", "d", "e", "d">>
V_Business == <<"B", "u", "s", "i", "n", "e", "s", "s">>
V_word == <<"t", "w", "o">>
P_Tomorrow == <<"T", "o", "m", "o", "r", "r", "o", "w", " ">>
P_dat == <<"D", "a", "y", " ", "a", "f", "t", "e", "r", " ", "t", "o", "m", "o", "r", "r", "o", "w">>
P_tom_after == <<"t", "o", "m", "o", "r", "r", "o", "w", " ", "a", "f", "t", "e", "r", " ", "3", " ", "d", "a", "y", "s">>
P_dat_after == <<"a", "f", "t", "e", "r", " ", "3", " ", "d", "a", "y", "s", ",", " ", "d", "a", "y", " ", "a", "f", "t", "e", "r", " ", "t", "o", "m", "o", "r", "r", "o", "w">>
P_after_1_day == <<"a", "f", "t", "e", "r", " ", "1", " ", "d", "a", "y">>
P_double_space == <<"a", "f", "t", "e", "r", " ", " ", "3", " ", "d", "a", "y", "s">>
P_after_x == <<"a", "f", "t", "e", "r", " ", "x", " ", "d", "a", "y", "s">>
P_opaque == <<"n", "e", "x", "t", " ", "f", "r", "i">>
P_far == <<"A", "f", "t", "e", "r", " ", "4", "0", "0", "0", "0", "0", "0", " ", "d", "a", "y", "s">>

\* "after N days"
AfterDays(n) == S_after_ \o NatToStr(n) \o <<" ", "d", "a", "y", "s">>

\* datetime.now(): two days the request may arrive on
NowDates == {ymd2ord(<<2026, 11, 2>>), ymd2ord(<<2028, 2, 28>>)}

\* what the two date libraries may answer for a phrase
LibDates == {ymd2ord(<<2027, 3, 15>>), MaxOrdinal}
LibOutcomes ==
  {[cal |-> c, fuzzy |-> 0] : c \in LibDates} \cup
  {[cal |-> 0, fuzzy |-> f] : f \in LibDates \cup {0}}

\* the libraries answer only the calls that reach them
NotAsked == [cal |-> 0, fuzzy |-> 0]
LibAnswers(natural_date) ==
  IF consults_libraries(natural_date) THEN LibOutcomes ELSE {NotAsked}

\* request.get_json(): the body is not JSON, or is JSON null, an array, or
\* an object whose "query" is absent or of the given value
Requests ==
  {[kind |-> k, query |-> Absent] : k \in {"invalid", "null", "array", "object"}} \cup
  {[kind |-> "object", query |-> q] :
     q \in {JNull, JStr(<<>>), JNum(7),
            JStr(Q_both), JStr(Q_to_only), JStr(Q_from_only), JStr(Q_neither)}}

FromVals == {Absent, JNull, JStr(<<>>), JNum(0), JStr(V_Delhi), JStr(V_NotProvided)}
ToVals == {JNull, JFalse, JStr(V_Mumbai)}
DepVals == {Absent, JNum(5), JStr(P_Tomorrow), JStr(AfterDays(MaxDays)), JStr(P_opaque)}
RetVals == {Absent, JNum(7), JStr(P_dat), JStr(P_opaque)} \cup
           {JStr(AfterDays(n)) : n \in 1..MaxDays}

MkFields(f, t, d, r, a, c, i, cab, air) ==
  [k \in Keys |->
     CASE k = "from" -> f [] k = "to" -> t [] k = "depdate" -> d [] k = "retdate" -> r
       [] k = "adults" -> a [] k = "children" -> c [] k = "infants" -> i
       [] k = "cabin" -> cab [] k = "airline_include" -> air]

\* every value of the required keys, the other keys as the prompt asks
RequiredVaried ==
  {MkFields(f, t, d, r, JNum(1), JNum(0), JNum(0), JStr(S_economy), JNull) :
     f \in FromVals, t \in ToVals, d \in DepVals, r \in RetVals}

\* every value of the other keys, for a full round trip and for an empty query
OptionalVaried ==
  {MkFields(req[1], req[2], req[3], req[4], a, c, i, cab, air) :
     req \in {<<JStr(V_Delhi), JStr(V_Mumbai), JStr(P_Tomorrow), JStr(AfterDays(MaxDays))>>,
              <<JNull, JNull, Absent, Absent>>},
     a \in {Absent, JNull, JNum(2), JStr(<<"2">>), JStr(V_word)},
     c \in {Absent, JNull, JNum(1)},
     i \in {Absent, JNum(0)},
     cab \in {Absent, JNull, JStr(V_Business)},
     air \in {Absent, JNull, JStr(V_word)}}

CoreFields ==
  MkFields(JStr(V_Delhi), JStr(V_Mumbai), JStr(P_Tomorrow), Absent,
           JNum(1), JNum(0), JNum(0), JStr(S_economy), JNull)

GoodContent == <<"p", "{", "m", "}", "p">>

Contents == UNION {[1..k -> {"{", "}", "p", "m"}] : k \in 0..MaxTokens}

\* ollama.chat(...): it raises, or answers with some text
CompleterOutcomes ==
  {[raised |-> TRUE, content |-> <<>>, members |-> EmptyMapping]} \cup
  {[raised |-> FALSE, content |-> c, members |-> CoreFields] : c \in Contents} \cup
  {[raised |-> FALSE, content |-> GoodContent, members |-> m] :
     m \in RequiredVaried \cup OptionalVaried}

(***************************************************************************)
(* State of one request to /parse.                                         *)
(***************************************************************************)
VARIABLES
  pc,               \* RECEIVED, EXTRACTING, EXTRACTED, VALIDATING, then
                    \* INCOMPLETE, COMPLETE or FAILED
  request,          \* what request.get_json() finds in the body
  now,              \* datetime.now()
  user_query,       \* data.get("query")
  completer_calls,  \* how many times ollama.chat was called
  content,          \* the completer's reply
  parsed,           \* json.loads of the brace-delimited span
  vals,             \* the locals of lines 92-111
  response,         \* what parse_query returns
  pd                \* one direct call of parse_date_string

vars == <<pc, request, now, user_query, completer_calls, content, parsed, vals,
          response, pd>>

NoPayload ==
  [adults |-> 0, children |-> 0, infants |-> 0, cabin |-> <<>>, stops |-> FALSE,
   airline_include |-> JNull, ages |-> <<>>, segments |-> <<>>]

NoEcho == [from |-> JNull, to |-> JNull, depdate |-> JNull]

NoResponse ==
  [status |-> "none", code |-> 0, error |-> "", missing_fields |-> <<>>,
   follow_up |-> <<>>, parsed |-> NoEcho, payload |-> NoPayload]

\* jsonify({"error": message}), code
ErrorResponse(message, code) ==
  [NoResponse EXCEPT !.status = "error", !.code = code, !.error = message]

NoVals ==
  [depfrom |-> JNull, arrto |-> JNull, depdate_raw |-> JNull, retdate_raw |-> JNull,
   depdate |-> RNone, retdate |-> RNone, ret_called |-> FALSE, ret_base |-> NoBase,
   adults |-> 0, children |-> 0, infants |-> 0, cabin |-> <<>>, airline |-> JNull]

PdIdle ==
  [phase |-> "idle", natural_date |-> JNull, base_date |-> NoBase,
   lib |-> NotAsked, result |-> RNone]

Init ==
  /\ pc = "RECEIVED"
  /\ request \in Requests
  /\ now \in NowDates
  /\ user_query = JNull
  /\ completer_calls = 0
  /\ content = <<>>
  /\ parsed = EmptyMapping
  /\ vals = NoVals
  /\ response = NoResponse
  /\ pd = PdIdle

\* the except clause of lines 170-171
Fail(exc) ==
  /\ pc' = "FAILED"
  /\ response' = ErrorResponse(exc, 500)

(***************************************************************************)
(* Lines 76-79: read the body and require a query.                         *)
(***************************************************************************)
Receive ==
  /\ pc = "RECEIVED"
  /\ IF request.kind = "invalid"
     THEN Fail("BadRequest") /\ UNCHANGED user_query
     ELSE IF request.kind # "object"
     THEN Fail("AttributeError") /\ UNCHANGED user_query
     ELSE /\ user_query' = dict_get([query |-> request.query], "query")
          /\ IF ~truthy(user_query')
             THEN /\ pc' = "FAILED"
                  /\ response' = ErrorResponse("Missing 'query'", 400)
             ELSE /\ pc' = "EXTRACTING"
                  /\ UNCHANGED response
  /\ UNCHANGED <<request, now, completer_calls, content, parsed, vals, pd>>

(***************************************************************************)
(* Lines 81-90: one call of the completer, then the Response Extractor.    *)
(***************************************************************************)
Extract ==
  /\ pc = "EXTRACTING"
  /\ \E out \in CompleterOutcomes :
       /\ completer_calls' = completer_calls + 1
       /\ IF out.raised
          THEN Fail("ResponseError") /\ UNCHANGED <<content, parsed>>
          ELSE /\ content' = out.content
               /\ LET json_match == re_search_json(out.content)
                      loaded == json_loads(json_match.span, out.members)
                  IN IF ~json_match.matched
                     THEN /\ pc' = "FAILED"
                          /\ response' = ErrorResponse("Invalid JSON in model output", 500)
                          /\ UNCHANGED parsed
                     ELSE IF ~loaded.ok
                     THEN Fail(loaded.exc) /\ UNCHANGED parsed
                     ELSE /\ parsed' = loaded.val
                          /\ pc' = "EXTRACTED"
                          /\ UNCHANGED response
  /\ UNCHANGED <<request, now, user_query, vals, pd>>

(***************************************************************************)
(* Lines 92-111: city cross-check, date normalization, defaults.           *)
(***************************************************************************)
\* lines 98-101: `if value and word not in user_query.lower(): value = None`
cross_check(value, query, word) ==
  IF ~truthy(value) THEN Ok(value)
  ELSE LET q == py_lower(query)
       IN IF ~q.ok THEN Raised(q.exc)
          ELSE IF ~Contains(q.val, word) THEN Ok(JNull) ELSE Ok(value)

\* line 103
normalize_depdate(depdate_raw, now_, lib) ==
  IF truthy(depdate_raw) THEN parse_date_string(depdate_raw, NoBase, now_, lib)
  ELSE RNone

\* mutant: the return date is normalized relative to now
retdate_base_now(depdate) == NoBase

\* line 104: base_date=datetime.strptime(depdate, "%Y-%m-%d")
retdate_base(depdate) == strptime(depdate.ymd)

\* line 104: normalized only `if retdate_raw and depdate`
retdate_called(retdate_raw, depdate) == truthy(retdate_raw) /\ depdate.k = "date"

normalize_retdate(retdate_raw, depdate, now_, lib) ==
  IF retdate_called(retdate_raw, depdate)
  THEN parse_date_string(retdate_raw, retdate_base(depdate), now_, lib)
  ELSE RNone

\* the first exception lines 92-111 raise, "" when none
first_exception(excs) ==
  LET bad == {i \in 1..Len(excs) : excs[i] # ""}
  IN IF bad = {} THEN ""
     ELSE excs[CHOOSE i \in bad : \A j \in bad : i <= j]

Normalize ==
  /\ pc = "EXTRACTED"
  /\ \E lib1 \in LibAnswers(dict_get(parsed, "depdate")),
        lib2 \in LibAnswers(dict_get(parsed, "retdate")) :
       LET depdate_raw == dict_get(parsed, "depdate")
           retdate_raw == dict_get(parsed, "retdate")
           depfrom == cross_check(dict_get(parsed, "from"), user_query, S_from)
           arrto == cross_check(dict_get(parsed, "to"), user_query, S_to)
           depdate == normalize_depdate(depdate_raw, now, lib1)
           retdate == normalize_retdate(retdate_raw, depdate, now, lib2)
           adults == py_int(dict_get_default(parsed, "adults", JNum(1)))
           children == py_int(dict_get_default(parsed, "children", JNum(0)))
           infants == py_int(dict_get_default(parsed, "infants", JNum(0)))
           cabin == py_lower(dict_get_default(parsed, "cabin", JStr(S_economy)))
           airline == dict_get_default(parsed, "airline_include", JStr(<<>>))
           exc == first_exception(<<depfrom.exc, arrto.exc, depdate.exc,
                                    IF depdate.k = "raise" THEN "" ELSE retdate.exc,
                                    adults.exc, children.exc, infants.exc, cabin.exc>>)
       IN IF exc # ""
          THEN Fail(exc) /\ UNCHANGED vals
          ELSE /\ vals' = [depfrom |-> depfrom.val, arrto |-> arrto.val,
                           depdate_raw |-> depdate_raw, retdate_raw |-> retdate_raw,
                           depdate |-> depdate, retdate |-> retdate,
                           ret_called |-> retdate_called(retdate_raw, depdate),
                           ret_base |-> IF retdate_called(retdate_raw, depdate)
                                        THEN retdate_base(depdate) ELSE NoBase,
                           adults |-> adults.val, children |-> children.val,
                           infants |-> infants.val, cabin |-> cabin.val,
                           airline |-> airline]
               /\ pc' = "VALIDATING"
               /\ UNCHANGED response
  /\ UNCHANGED <<request, now, user_query, completer_calls, content, parsed, pd>>

(***************************************************************************)
(* Lines 113-168: the Field Validator, then the incomplete response or the *)
(* payload.                                                                *)
(***************************************************************************)
Q_FROM == "Where are you flying *from*?"
Q_TO == "Where are you flying *to*?"
Q_DEPART == "When do you want to *depart*?"

\* mutant: a raw phrase is enough, resolved or not
depdate_missing_raw_only(depdate_raw, depdate) == ~truthy(depdate_raw)

\* line 123: `not depdate_raw or not depdate`
depdate_missing(depdate_raw, depdate) == ~truthy(depdate_raw) \/ depdate.k # "date"

\* mutant: the date is examined first
missing_fields_date_first(depfrom, arrto, depdate_raw, depdate) ==
  (IF depdate_missing(depdate_raw, depdate) THEN <<"depdate">> ELSE <<>>) \o
  (IF is_missing(depfrom) THEN <<"from">> ELSE <<>>) \o
  (IF is_missing(arrto) THEN <<"to">> ELSE <<>>)

\* lines 117-125: missing_fields
missing_fields_of(depfrom, arrto, depdate_raw, depdate) ==
  (IF is_missing(depfrom) THEN <<"from">> ELSE <<>>) \o
  (IF is_missing(arrto) THEN <<"to">> ELSE <<>>) \o
  (IF depdate_missing(depdate_raw, depdate) THEN <<"depdate">> ELSE <<>>)

\* lines 117-125: follow_up_questions, appended beside missing_fields
follow_up_questions_of(depfrom, arrto, depdate_raw, depdate) ==
  (IF is_missing(depfrom) THEN <<Q_FROM>> ELSE <<>>) \o
  (IF is_missing(arrto) THEN <<Q_TO>> ELSE <<>>) \o
  (IF depdate_missing(depdate_raw, depdate) THEN <<Q_DEPART>> ELSE <<>>)

\* lines 159-163
return_segment(v) ==
  [depfrom |-> v.arrto, arrto |-> v.depfrom, depdate |-> v.retdate.ymd]

\* lines 141-163
build_payload(v) ==
  [adults |-> v.adults, children |-> v.children, infants |-> v.infants,
   cabin |-> v.cabin, stops |-> FALSE, airline_include |-> v.airline, ages |-> <<>>,
   segments |->
     <<[depfrom |-> v.depfrom, arrto |-> v.arrto, depdate |-> v.depdate.ymd]>> \o
     (IF v.retdate.k = "date" THEN <<return_segment(v)>> ELSE <<>>)]

Validate ==
  /\ pc = "VALIDATING"
  /\ LET missing_fields ==
           missing_fields_of(vals.depfrom, vals.arrto, vals.depdate_raw, vals.depdate)
         follow_up_questions ==
           follow_up_questions_of(vals.depfrom, vals.arrto, vals.depdate_raw, vals.depdate)
     IN IF missing_fields # <<>>
        THEN /\ pc' = "INCOMPLETE"
             /\ response' =
                  [NoResponse EXCEPT
                     !.status = "incomplete", !.code = 200,
                     !.missing_fields = missing_fields,
                     !.follow_up = follow_up_questions,
                     !.parsed = [from |-> vals.depfrom, to |-> vals.arrto,
                                 depdate |-> IF truthy(vals.depdate_raw)
                                             THEN vals.depdate_raw ELSE JNull]]
        ELSE /\ pc' = "COMPLETE"
             /\ response' =
                  [NoResponse EXCEPT
                     !.status = "complete", !.code = 200,
                     !.payload = build_payload(vals)]
  /\ UNCHANGED <<request, now, user_query, completer_calls, content, parsed, vals, pd>>

Next == Receive \/ Extract \/ Normalize \/ Validate

Spec == Init /\ [][Next]_vars

(***************************************************************************)
(* parse_date_string on its own: every phrase below with every reference   *)
(* date (NoBase: base_date=None, so datetime.now() is used).               *)
(***************************************************************************)
DateInputs ==
  {JNull, JStr(<<>>), JNum(5), JStr(S_tomorrow), JStr(P_Tomorrow), JStr(P_dat),
   JStr(P_tom_after), JStr(P_dat_after), JStr(P_after_1_day), JStr(P_double_space),
   JStr(P_after_x), JStr(P_opaque), JStr(P_far),
   JStr(AfterDays(MaxDays) \o <<" ">> \o P_after_1_day)} \cup
  {JStr(AfterDays(n)) : n \in 0..MaxDays}

BaseDates ==
  {NoBase, ymd2ord(<<2026, 12, 31>>), ymd2ord(<<2028, 2, 28>>), MaxOrdinal - 1, MaxOrdinal}

InitDate ==
  /\ pc = "UNIT"
  /\ request = [kind |-> "null", query |-> Absent]
  /\ now \in NowDates
  /\ user_query = JNull
  /\ completer_calls = 0
  /\ content = <<>>
  /\ parsed = EmptyMapping
  /\ vals = NoVals
  /\ response = NoResponse
  /\ \E nd \in DateInputs, base \in BaseDates :
       pd = [PdIdle EXCEPT !.phase = "ready", !.natural_date = nd, !.base_date = base]

ParseDateCall ==
  /\ pd.phase = "ready"
  /\ \E lib \in LibOutcomes :
       pd' = [pd EXCEPT !.phase = "done", !.lib = lib,
                        !.result = parse_date_string(pd.natural_date, pd.base_date, now, lib)]
  /\ UNCHANGED <<pc, request, now, user_query, completer_calls, content, parsed, vals,
                 response>>

NextDate == ParseDateCall

SpecDate == InitDate /\ [][NextDate]_vars

(***************************************************************************)
(* Properties.                                                             *)
(***************************************************************************)
Terminal == pc \in {"INCOMPLETE", "COMPLETE", "FAILED"}

Validated == pc \in {"INCOMPLETE", "COMPLETE"}

RequiredOrder == <<"from", "to", "depdate">>

Rank(field) == CHOOSE i \in 1..Len(RequiredOrder) : RequiredOrder[i] = field

QuestionOf(field) ==
  CASE field = "from" -> Q_FROM [] field = "to" -> Q_TO [] field = "depdate" -> Q_DEPART

Range(seq) == {seq[i] : i \in 1..Len(seq)}

\* the required fields the validator finds missing, from the values it is given
MissingSet ==
  (IF is_missing(vals.depfrom) THEN {"from"} ELSE {}) \cup
  (IF is_missing(vals.arrto) THEN {"to"} ELSE {}) \cup
  (IF ~truthy(vals.depdate_raw) \/ vals.depdate.k # "date" THEN {"depdate"} ELSE {})

\* the query is text that does not contain the word, in any case
QueryLacks(word) == user_query.t = "str" /\ ~Contains(lower(user_query.s), word)

\* the completer's reply holds one brace-delimited span that is a JSON object
WellFormedReply ==
  \E a \in 1..Len(content), b \in 1..Len(content) :
    /\ a < b
    /\ content[a] = "{" /\ \A i \in 1..(a - 1) : content[i] # "{"
    /\ content[b] = "}" /\ \A i \in (b + 1)..Len(content) : content[i] # "}"
    /\ SubSeq(content, a, b) \in {<<"{", "m", "}">>, <<"{", "}">>}

\* C1: a response with status "complete" is produced only when nothing is
\* missing (from and to, after the cross-check, are not missing, the raw
\* depdate phrase is present and was resolved to a date, which the payload
\* carries); whenever one of these fails, the response is "incomplete" or an
\* error, never "complete".
C1_CompleteOnlyWhenNothingMissing ==
  /\ response.status = "complete" =>
       /\ pc = "COMPLETE"
       /\ ~is_missing(vals.depfrom)
       /\ ~is_missing(vals.arrto)
       /\ truthy(vals.depdate_raw)
       /\ vals.depdate.k = "date"
       /\ response.payload.segments[1] =
            [depfrom |-> vals.depfrom, arrto |-> vals.arrto, depdate |-> vals.depdate.ymd]
  /\ (Terminal /\ MissingSet # {}) => response.status \in {"incomplete", "error"}
  /\ (Validated /\ MissingSet # {}) => response.status = "incomplete"

\* C1 witness: both outcomes of the validator are reached; here the complete one
C1_Witness ==
  /\ pc = "COMPLETE"
  /\ response.status = "complete"
  /\ vals.depdate_raw = JStr(P_opaque)
  /\ vals.depdate.k = "date"

\* C2 (as claimed): when from, to and depdate are resolved and the return
\* phrase resolves relative to the departure date, the response is "complete"
\* with exactly two segments, the second with the cities of the first swapped,
\* whatever the values of adults, children, infants, cabin and airline_include.
C2_RoundTripAlwaysComplete ==
  LET depfrom == cross_check(dict_get(parsed, "from"), user_query, S_from)
      arrto == cross_check(dict_get(parsed, "to"), user_query, S_to)
      depdate == normalize_depdate(dict_get(parsed, "depdate"), now, NotAsked)
      retdate == normalize_retdate(dict_get(parsed, "retdate"), depdate, now, NotAsked)
  IN (/\ Terminal
      /\ depfrom.ok /\ ~is_missing(depfrom.val)
      /\ arrto.ok /\ ~is_missing(arrto.val)
      /\ depdate.k = "date"
      /\ retdate.k = "date")
     => /\ response.status = "complete"
        /\ Len(response.payload.segments) = 2
        /\ response.payload.segments[2].depfrom = response.payload.segments[1].arrto
        /\ response.payload.segments[2].arrto = response.payload.segments[1].depfrom

\* C3: the missing_fields of an "incomplete" response are exactly the missing
\* fields, in the order from, to, depdate and without duplicates; follow_up has
\* the same length and its i-th question belongs to the i-th missing field; and
\* when the validator finds all three missing, the response is "incomplete"
\* with missing_fields = <<from, to, depdate>>.
C3_MissingFieldsInFixedOrder ==
  /\ response.status = "incomplete" =>
       LET mf == response.missing_fields
       IN /\ pc = "INCOMPLETE"
          /\ Range(mf) = MissingSet
          /\ Range(mf) \subseteq Range(RequiredOrder)
          /\ \A i \in 1..Len(mf), j \in 1..Len(mf) : i < j => Rank(mf[i]) < Rank(mf[j])
          /\ Len(response.follow_up) = Len(mf)
          /\ \A i \in 1..Len(mf) : response.follow_up[i] = QuestionOf(mf[i])
  /\ (Validated /\ MissingSet = Range(RequiredOrder)) =>
       /\ response.status = "incomplete"
       /\ response.missing_fields = RequiredOrder

\* C3 witness: a response that lists two missing fields, the first one present
C3_Witness ==
  /\ response.status = "incomplete"
  /\ response.missing_fields = <<"to", "depdate">>
  /\ response.follow_up = <<Q_TO, Q_DEPART>>

\* C4 (as claimed): when the query does not contain "from", whatever the model
\* answers, the response is never "complete", and an "incomplete" response
\* lists "from" as missing and echoes no from value; the same for "to".
C4_WordAbsentForcesMissing ==
  /\ (Terminal /\ QueryLacks(S_from)) =>
       /\ response.status # "complete"
       /\ response.status = "incomplete" =>
            /\ "from" \in Range(response.missing_fields)
            /\ ~truthy(response.parsed.from)
  /\ (Terminal /\ QueryLacks(S_to)) =>
       /\ response.status # "complete"
       /\ response.status = "incomplete" =>
            /\ "to" \in Range(response.missing_fields)
            /\ ~truthy(response.parsed.to)

\* the body carries no query text: it is no JSON object, or the object has no
\* "query", or a null or empty one
QueryAbsent ==
  \/ request.kind # "object"
  \/ request.query \in {Absent, JNull, JStr(<<>>)}

\* C5 (as claimed): every request without query text ends in the error
\* response "Missing 'query'" with status 400, and the completer is never
\* invoked for it.
C5_MissingQueryIs400 ==
  QueryAbsent =>
    /\ completer_calls = 0
    /\ Terminal => response = ErrorResponse("Missing 'query'", 400)

\* the passenger counts and the cabin of the model output are usable
ValidPassengerFields ==
  /\ py_int(dict_get_default(parsed, "adults", JNum(1))).ok
  /\ py_int(dict_get_default(parsed, "children", JNum(0))).ok
  /\ py_int(dict_get_default(parsed, "infants", JNum(0))).ok
  /\ py_lower(dict_get_default(parsed, "cabin", JStr(S_economy))).ok

\* C6 (as claimed): for a model output that is a mapping with valid passenger
\* and cabin fields, no depdate or retdate value leads to an error response;
\* an unresolved depdate gives "incomplete" with "depdate" missing, and an
\* unresolved retdate gives a response without a return segment.
C6_UnresolvedDateNeverAnError ==
  (Terminal /\ user_query.t = "str" /\ WellFormedReply /\ ValidPassengerFields) =>
    /\ response.status # "error"
    /\ vals.depdate.k # "date" =>
         /\ response.status = "incomplete"
         /\ "depdate" \in Range(response.missing_fields)
    /\ vals.retdate.k # "date" => Len(response.payload.segments) <= 1

\* C7: a reply with no "{" ... "}" span, or whose span is not JSON, ends in an
\* error response with status 500, never in "complete" or "incomplete", and
\* the completer is called once, never a second time.
C7_MalformedOutputIs500 ==
  /\ completer_calls <= 1
  /\ (completer_calls = 1 /\ ~WellFormedReply) =>
       /\ pc = "FAILED"
       /\ response.status = "error"
       /\ response.code = 500

\* C7 witness: a span is found and json.loads rejects it
C7_Witness ==
  /\ pc = "FAILED"
  /\ completer_calls = 1
  /\ content = <<"{", "p", "}">>
  /\ response = ErrorResponse("JSONDecodeError", 500)

(***************************************************************************)
(* Properties of parse_date_string, over its direct calls.                 *)
(***************************************************************************)
\* the reference date R of the call: base_date, or now when it is None
PdToday == IF pd.base_date # NoBase THEN pd.base_date ELSE now

\* the lowercased phrase of the call
PdPhrase == lower(pd.natural_date.s)

PdCalled == pd.phase = "done" /\ pd.natural_date.t = "str"

\* the call has returned the text of the date `ord`
PdReturnsDate(ord) == pd.result.k = "date" /\ strptime(pd.result.ymd) = ord

\* C8 (as claimed): for a phrase matching "after N day(s)", whatever else it
\* contains, and a reference date R (with R + N days a date of the calendar,
\* no later than 9999-12-31), the result is the date R + N days.
C8_AfterDaysWhateverElse ==
  (/\ PdCalled
   /\ re_search_after_days(PdPhrase).matched
   /\ PdToday + re_search_after_days(PdPhrase).days <= MaxOrdinal)
  => PdReturnsDate(PdToday + re_search_after_days(PdPhrase).days)

\* C8 (amended): for a phrase that matches "after N day(s)" (N the number of
\* the leftmost match) and does not contain "tomorrow", and a reference date R
\* with R + N days no later than 9999-12-31, the result is the date R + N
\* days, whatever the general and the fuzzy parser would answer.
C8_AfterDaysUnlessTomorrow ==
  (/\ PdCalled
   /\ re_search_after_days(PdPhrase).matched
   /\ ~Contains(PdPhrase, S_tomorrow)
   /\ PdToday + re_search_after_days(PdPhrase).days <= MaxOrdinal)
  => PdReturnsDate(PdToday + re_search_after_days(PdPhrase).days)

\* C8 witness: "after 2 days after 1 day" on 2028-02-28, with a library that
\* would answer another date: the result is 2028-03-01
C8_Witness ==
  /\ PdCalled
  /\ pd.natural_date.s = AfterDays(MaxDays) \o <<" ">> \o P_after_1_day
  /\ pd.base_date = ymd2ord(<<2028, 2, 28>>)
  /\ pd.lib.cal = ymd2ord(<<2027, 3, 15>>)
  /\ pd.result = RDate(ymd2ord(<<2028, 2, 28>>) + MaxDays)

\* C9: for every phrase and every reference date R, the result is R + 2 days
\* when the phrase contains "day after tomorrow" and R + 1 day when it
\* contains "tomorrow" but not "day after tomorrow" (R + 2, resp. R + 1, being
\* a date of the calendar, no later than 9999-12-31), whatever the "after N
\* days" rule and the libraries would give; a phrase that contains "day after
\* tomorrow" never resolves to R + 1.
C9_TomorrowRulesInRange ==
  PdCalled =>
    /\ (Contains(PdPhrase, S_day_after_tomorrow) /\ PdToday + 2 <= MaxOrdinal)
         => PdReturnsDate(PdToday + 2)
    /\ (/\ Contains(PdPhrase, S_tomorrow)
        /\ ~Contains(PdPhrase, S_day_after_tomorrow)
        /\ PdToday + 1 <= MaxOrdinal)
         => PdReturnsDate(PdToday + 1)
    /\ Contains(PdPhrase, S_day_after_tomorrow) => ~PdReturnsDate(PdToday + 1)

\* C9 witness: "after 3 days, day after tomorrow" on 2026-12-31 is 2027-01-02
C9_Witness ==
  /\ PdCalled
  /\ pd.natural_date.s = P_dat_after
  /\ pd.base_date = ymd2ord(<<2026, 12, 31>>)
  /\ pd.result.ymd = <<2027, 1, 2>>

(***************************************************************************)
(* The reference date of the return date.                                  *)
(***************************************************************************)
\* the days a phrase rule adds for a return phrase, -1 when none applies
RuleDays(phrase) ==
  IF Contains(phrase, S_day_after_tomorrow) THEN 2
  ELSE IF Contains(phrase, S_tomorrow) THEN 1
  ELSE IF re_search_after_days(phrase).matched THEN re_search_after_days(phrase).days
  ELSE -1

\* C10: when the departure date resolves to D and the return phrase is "after
\* N days" (resp. "tomorrow", "day after tomorrow"), the return segment of the
\* payload has depdate D + N (resp. D + 1, D + 2), D being the departure date
\* of the first segment and not now; and when the departure date is not
\* resolved, the return date is not normalized and there is no return segment.
C10_ReturnRelativeToDeparture ==
  /\ (/\ response.status = "complete"
      /\ vals.retdate_raw.t = "str"
      /\ RuleDays(lower(vals.retdate_raw.s)) >= 0)
     => /\ Len(response.payload.segments) = 2
        /\ strptime(response.payload.segments[2].depdate) =
             strptime(response.payload.segments[1].depdate)
               + RuleDays(lower(vals.retdate_raw.s))
  /\ (pc \in {"VALIDATING", "INCOMPLETE", "COMPLETE"} /\ vals.depdate.k # "date")
     => /\ ~vals.ret_called
        /\ vals.retdate = RNone
        /\ Len(response.payload.segments) = 0

\* C10 witness: leaving "after 2 days" from 2028-02-28 and returning "after 1
\* days": the return segment is dated 2028-03-02
C10_Witness ==
  /\ response.status = "complete"
  /\ now = ymd2ord(<<2028, 2, 28>>)
  /\ vals.depdate_raw = JStr(AfterDays(MaxDays))
  /\ vals.retdate_raw = JStr(AfterDays(1))
  /\ Len(response.payload.segments) = 2
  /\ response.payload.segments[2].depdate = strftime(now + MaxDays + 1)

====
